---------------------------- MODULE Spec2Model ----------------------------
(***************************************************************************)
(* A model of rocco (src/src/lib.rs): the Docco document, its constructor  *)
(* Docco::new, the line segmenter Docco::parse with its two scans          *)
(* parse_doc and parse_code, and Docco::render.                            *)
(*                                                                         *)
(* Text (a String, a path) is a sequence of one-character strings, so that *)
(* trimming, prefix tests, escaping and prefix stripping are computed the  *)
(* way the standard library computes them.                                 *)
(***************************************************************************)
EXTENDS Integers, Sequences, FiniteSets, TLC

(***************************************************************************)
(* Bounds of the model.                                                    *)
(***************************************************************************)
\* longest source file, in lines
MaxLines == 3
\* most sections a Document is let to accumulate (parse may never stop)
MaxSections == 6
\* most calls of parse() on one Document
MaxParses == 2
\* most calls of render() on one Document
MaxRenders == 1

(***************************************************************************)
(* String primitives of the Rust standard library, as used by lib.rs.      *)
(***************************************************************************)
\* char::is_whitespace, over the characters of the model
IsWhitespace(c) == c \in {" ", "\t"}

Drop(s, n) == SubSeq(s, n + 1, Len(s))

\* str::starts_with
StartsWith(s, p) == Len(p) <= Len(s) /\ SubSeq(s, 1, Len(p)) = p

\* str::ends_with
EndsWith(s, p) == Len(p) <= Len(s) /\ SubSeq(s, Len(s) - Len(p) + 1, Len(s)) = p

\* str::trim_start
RECURSIVE TrimStart(_)
TrimStart(s) ==
    IF s # <<>> /\ IsWhitespace(Head(s)) THEN TrimStart(Tail(s)) ELSE s

\* str::trim_end
RECURSIVE TrimEnd(_)
TrimEnd(s) ==
    IF s # <<>> /\ IsWhitespace(s[Len(s)])
    THEN TrimEnd(SubSeq(s, 1, Len(s) - 1))
    ELSE s

\* str::trim
Trim(s) == TrimEnd(TrimStart(s))

\* str::trim_start_matches: removes the prefix p as long as it repeats
RECURSIVE TrimStartMatches(_, _)
TrimStartMatches(s, p) ==
    IF p # <<>> /\ StartsWith(s, p)
    THEN TrimStartMatches(Drop(s, Len(p)), p)
    ELSE s

\* str::replace of the one-character pattern c by the text r
RECURSIVE Replace(_, _, _)
Replace(s, c, r) ==
    IF s = <<>> THEN <<>>
    ELSE (IF Head(s) = c THEN r ELSE <<Head(s)>>) \o Replace(Tail(s), c, r)

\* position of the last occurrence of c in s, 0 when there is none
RECURSIVE LastIndexOf(_, _)
LastIndexOf(s, c) ==
    IF s = <<>> THEN 0
    ELSE IF s[Len(s)] = c THEN Len(s)
    ELSE LastIndexOf(SubSeq(s, 1, Len(s) - 1), c)

(***************************************************************************)
(* Paths (std::path::Path), over paths without "." and ".." components.    *)
(* An Option is the empty set or a singleton.                              *)
(***************************************************************************)
RECURSIVE StripSlashes(_)
StripSlashes(p) ==
    IF p # <<>> /\ p[Len(p)] = "/"
    THEN StripSlashes(SubSeq(p, 1, Len(p) - 1))
    ELSE p

\* Path::file_name: the last component, None for the empty path and the root
FileName(p) ==
    LET q == StripSlashes(p)
    IN  IF q = <<>> THEN {} ELSE {Drop(q, LastIndexOf(q, "/"))}

\* Path::file_stem: the file name up to its last ".", the whole name when
\* it has no "." or only a leading one
FileStem(p) ==
    {IF LastIndexOf(n, ".") \in {0, 1} THEN n
     ELSE SubSeq(n, 1, LastIndexOf(n, ".") - 1) : n \in FileName(p)}

\* Path::extension: the file name after its last ".", None when it has
\* no "." or only a leading one
Extension(p) ==
    {Drop(n, LastIndexOf(n, ".")) :
        n \in {m \in FileName(p) : LastIndexOf(m, ".") \notin {0, 1}}}

\* Path::parent: the path without its last component, None for the empty
\* path and the root
Parent(p) ==
    LET q == StripSlashes(p)
        before == SubSeq(q, 1, LastIndexOf(q, "/"))
    IN  IF q = <<>> THEN {}
        ELSE IF before # <<>> /\ StripSlashes(before) = <<>> THEN {<<"/">>}
        ELSE {StripSlashes(before)}

(***************************************************************************)
(* The language table and the embedded assets.                             *)
(***************************************************************************)
Language(name, comment) == [name |-> name, comment |-> comment]

\* the language table: extension -> Language
LANGUAGES ==
    (<<"r", "s">> :> Language("rust", <<"/", "/">>)) @@
    (<<"p", "y">> :> Language("python", <<"#">>))

TemplateCss == "assets/template.css"
TemplateHtml == "assets/template.html"

(***************************************************************************)
(* Section and Docco.                                                      *)
(***************************************************************************)
Section(num, docs_html, code_html) ==
    [num |-> num, docs_html |-> docs_html, code_html |-> code_html]

\* the placeholder held while no Document has been constructed
NoDocco ==
    [sections |-> <<>>, css |-> "", html |-> "", filename |-> <<>>,
     output |-> <<>>, extension |-> <<>>, language |-> "",
     doc_symbol |-> <<>>]

Err(kind) == [ok |-> FALSE, kind |-> kind, value |-> NoDocco]
Ok(v) == [ok |-> TRUE, kind |-> "Ok", value |-> v]

\* an error that reports the extension with its dot
UnsupportedExtDotted(ext) ==
    [ok |-> FALSE, kind |-> "UnsupportedExt",
     value |-> [NoDocco EXCEPT !.extension = <<".">> \o ext]]

\* Error::UnsupportedExt(ext.to_string()), the extension carried in value
UnsupportedExt(ext) ==
    [ok |-> FALSE, kind |-> "UnsupportedExt",
     value |-> [NoDocco EXCEPT !.extension = ext]]

\* an output path that joins directory and file name without separator
OutputInDirUnseparated(dir, filename) == dir \o filename

\* format!("{}/{}", output.display(), filename)
OutputInDir(dir, filename) == dir \o <<"/">> \o filename

\* the kind returned by Docco::new for a source path without extension
NoExtensionKind == "InvalidSourceFile"

\* Docco::new.  source, output: paths; output is an Option;
\* is_file: source.is_file(); is_dir: output.is_dir()
DoccoNew(source, is_file, output, is_dir) ==
    IF ~is_file THEN Err("InvalidSourceFile")
    ELSE IF FileStem(source) = {} /\ (output = {} \/ is_dir)
    THEN Err("InvalidSourceFile")
    ELSE
      LET stem == CHOOSE s \in FileStem(source) : TRUE
          html_name == stem \o <<".", "h", "t", "m", "l">>
          out == IF output = {} THEN html_name
                 ELSE LET o == CHOOSE o \in output : TRUE
                      IN  IF is_dir THEN OutputInDir(o, html_name) ELSE o
      IN  IF Extension(source) = {} THEN Err(NoExtensionKind)
          ELSE LET ext == CHOOSE e \in Extension(source) : TRUE
               IN  IF ext \notin DOMAIN LANGUAGES
                   THEN UnsupportedExt(ext)
                   ELSE Ok([sections |-> <<>>,
                            filename |-> source,
                            css |-> TemplateCss,
                            html |-> TemplateHtml,
                            output |-> out,
                            language |-> LANGUAGES[ext].name,
                            extension |-> ext,
                            doc_symbol |-> LANGUAGES[ext].comment])


(***************************************************************************)
(* The environment: the source file on disk, as the sequence of items the  *)
(* iterator BufReader::lines yields.  A line that cannot be read (an I/O    *)
(* failure, bytes that are not UTF-8) is the item Unreadable; every other  *)
(* item is the text of a line without its line terminator.                 *)
(***************************************************************************)
Unreadable == <<"Err">>

\* the lines source files are made of, for the comment delimiter sym
SampleLines(sym) ==
    { <<>>,                          \* an empty line
      <<" ">>,                       \* a line made only of whitespace
      <<" ", "<", "a", ">">>,        \* indented code with angle brackets
      Unreadable }
    \cup
    (IF sym = <<"/", "/">>
     THEN { <<"/", "/", "a">>,           \* a comment
            <<" ", "/", "/", "/", "a">> } \* an indented "///" doc comment
     ELSE { sym \o sym \o <<"a">> })     \* a comment that repeats the delimiter

RECURSIVE FilesOfLen(_, _)
FilesOfLen(n, sym) ==
    IF n = 0 THEN {<<>>}
    ELSE {Append(f, l) : f \in FilesOfLen(n - 1, sym), l \in SampleLines(sym)}

SourceFiles(sym) == UNION {FilesOfLen(n, sym) : n \in 0..MaxLines}

\* the source paths Documents are constructed from
SourcePaths == { <<"t", "/", "s", ".", "r", "s">>, <<"s", ".", "p", "y">> }

VARIABLES
    docco,      \* the Document (struct Docco)
    file,       \* the contents of the source file
    pc,         \* where the caller is: "new", "failed", "idle", or inside parse() or render()
    lines,      \* parse: the peekable line iterator, as the index of the next item
    idx,        \* parse: the local idx
    doc,        \* parse: the local buffer doc
    code,       \* parse: the local buffer code
    result,     \* what the last finished operation returned: <<kind>> or <<kind, payload>>
    written,    \* render: <<>> or <<the sections rendered to the output file>>
    dirs,       \* render: whether create_dir_all has made the parent directories
    fault,      \* history: the external call that failed in the last operation, or "none"
    scan,       \* history: the items consumed into doc and code in this iteration
    spans,      \* history: for each section, the buffers and items it was made of
    log,        \* history: for each finished call of parse(), what it returned and left
    call,       \* history: the arguments of the call of Docco::new
    parses,     \* history: number of calls of parse()
    renders     \* history: number of calls of render()

vars == <<docco, file, pc, lines, idx, doc, code, result, written, dirs,
          fault, scan, spans, log, call, parses, renders>>

parse_locals == <<lines, idx, doc, code, scan>>
render_state == <<written, dirs, fault, renders>>

NoScan == [from |-> 1, doc |-> <<>>, code |-> <<>>]

\* Peekable::peek on the line iterator
PeekNone == lines > Len(file)
PeekErr == lines <= Len(file) /\ file[lines] = Unreadable
PeekOk == lines <= Len(file) /\ file[lines] # Unreadable
next_line == file[lines]

\* comrak::markdown_to_html with default options: an uninterpreted function
\* of the buffer, the empty text for the empty buffer
markdown_to_html(d) == IF d = <<>> THEN <<>> ELSE <<"markdown_to_html", d>>


(***************************************************************************)
(* Docco::parse_doc and Docco::parse_code: the tests and the texts.        *)
(***************************************************************************)
\* parse_doc: the line belongs to the documentation scan
IsDocLine(l) == StartsWith(Trim(l), docco.doc_symbol)

\* parse_doc: the line is a rust doc comment
IsRustDoc(l) == StartsWith(Trim(l), <<"/", "/", "/">>)

\* parse_doc: the text pushed on doc_buffer for a consumed line
DocText(l) ==
    IF IsRustDoc(l)
    THEN TrimStart(l) \o <<"\n">>
    ELSE TrimStartMatches(TrimStart(l), docco.doc_symbol) \o <<"\n">>

\* a code scan that does not stop at an empty line
IsCodeLineThroughBlank(l) ==
    ~StartsWith(TrimStart(l), docco.doc_symbol)

\* parse_code: the line belongs to the code scan
IsCodeLine(l) ==
    LET line_trimmed == TrimStart(l)
    IN  ~StartsWith(line_trimmed, docco.doc_symbol) /\ line_trimmed # <<>>

\* an escaping that forgets the second replacement
EscapeLineLtOnly(l) ==
    Replace(l, "<", <<"&", "l", "t">>)

\* parse_code: the two replacements
EscapeLine(l) ==
    Replace(Replace(l, "<", <<"&", "l", "t">>), ">", <<"&", "g", "t">>)

\* parse_code: the text pushed on code_buffer for a consumed line
CodeText(l) ==
    EscapeLine(l) \o
    (IF ~EndsWith(TrimStart(l), <<"\n">>) THEN <<"\n">> ELSE <<>>)

(***************************************************************************)
(* Docco::parse.                                                           *)
(***************************************************************************)
\* history: the record of a call of parse() that returns now
Returned(kind) ==
    [result |-> kind, sections |-> docco.sections,
     read_failed |-> pc = "outer" /\ PeekErr]

\* the call: open the file, make the iterator, idx = 0
ParseOpen ==
    /\ pc = "idle"
    /\ parses < MaxParses
    /\ parses' = parses + 1
    /\ \E opened \in BOOLEAN :
          IF opened
          THEN /\ pc' = "outer"
               /\ result' = <<"Pending">>
               /\ fault' = "none"
               /\ UNCHANGED log
          ELSE /\ pc' = "idle"
               /\ result' = <<"Io">>
               /\ fault' = "OpenOptions::open"
               /\ log' = Append(log, Returned("Io"))
    /\ lines' = 1
    /\ idx' = 0
    /\ doc' = <<>>
    /\ code' = <<>>
    /\ scan' = NoScan
    /\ UNCHANGED <<docco, file, spans, call, written, dirs, renders>>

\* outer loop: the next line is empty, consume it
OuterSkip ==
    /\ pc = "outer"
    /\ PeekOk
    /\ next_line = <<>>
    /\ lines' = lines + 1
    /\ UNCHANGED <<docco, file, pc, idx, doc, code, result, scan, spans,
                   log, call, parses, render_state>>

\* outer loop: the next line is not empty, start a section
OuterSection ==
    /\ pc = "outer"
    /\ PeekOk
    /\ next_line # <<>>
    /\ Len(docco.sections) < MaxSections
    /\ doc' = <<>>
    /\ code' = <<>>
    /\ scan' = [from |-> lines, doc |-> <<>>, code |-> <<>>]
    /\ pc' = "parse_doc"
    /\ UNCHANGED <<docco, file, lines, idx, result, spans, log, call,
                   parses, render_state>>

\* outer loop: peek gives no line (end of input or a failed read), return Ok(())
OuterReturn ==
    /\ pc = "outer"
    /\ ~PeekOk
    /\ pc' = "idle"
    /\ result' = <<"Ok">>
    /\ log' = Append(log, Returned("Ok"))
    /\ UNCHANGED <<docco, file, parse_locals, spans, call, parses,
                   render_state>>

\* parse_doc: consume a documentation line
DocConsume ==
    /\ pc = "parse_doc"
    /\ PeekOk
    /\ IsDocLine(next_line)
    /\ doc' = doc \o DocText(next_line)
    /\ scan' = [scan EXCEPT !.doc = Append(@, lines)]
    /\ lines' = lines + 1
    /\ UNCHANGED <<docco, file, pc, idx, code, result, spans, log, call,
                   parses, render_state>>

\* parse_doc: return Ok(()) without consuming
DocReturn ==
    /\ pc = "parse_doc"
    /\ ~(PeekOk /\ IsDocLine(next_line))
    /\ pc' = "parse_code"
    /\ UNCHANGED <<docco, file, parse_locals, result, spans, log, call,
                   parses, render_state>>

\* parse_code: consume a code line
CodeConsume ==
    /\ pc = "parse_code"
    /\ PeekOk
    /\ IsCodeLine(next_line)
    /\ code' = code \o CodeText(next_line)
    /\ scan' = [scan EXCEPT !.code = Append(@, lines)]
    /\ lines' = lines + 1
    /\ UNCHANGED <<docco, file, pc, idx, doc, result, spans, log, call,
                   parses, render_state>>

\* parse_code: return Ok(()) without consuming
CodeReturn ==
    /\ pc = "parse_code"
    /\ ~(PeekOk /\ IsCodeLine(next_line))
    /\ pc' = "push"
    /\ UNCHANGED <<docco, file, parse_locals, result, spans, log, call,
                   parses, render_state>>

\* a push that starts the list afresh in the first iteration of a call
PushedSectionsFresh ==
    IF idx = 0
    THEN <<Section(idx, markdown_to_html(doc), code)>>
    ELSE Append(docco.sections, Section(idx, markdown_to_html(doc), code))

\* the section list after the push of one iteration
PushedSections ==
    Append(docco.sections, Section(idx, markdown_to_html(doc), code))

\* outer loop: convert the documentation, push the section, idx += 1
PushSection ==
    /\ pc = "push"
    /\ docco' = [docco EXCEPT !.sections = PushedSections]
    /\ idx' = idx + 1
    /\ spans' = Append(spans, [from |-> scan.from,
                               doc |-> doc, code |-> code,
                               doc_lines |-> scan.doc,
                               code_lines |-> scan.code,
                               parse |-> parses])
    /\ pc' = "outer"
    /\ UNCHANGED <<file, lines, doc, code, result, scan, log, call,
                   parses, render_state>>

(***************************************************************************)
(* Docco::render.  Whether the template compiles and whether the file      *)
(* system calls succeed are inputs.                                        *)
(***************************************************************************)
\* a return with an error that comes after the directories were made
EarlyReturnAfterMkdir(kind, failed) ==
    /\ result' = <<kind>>
    /\ fault' = failed
    /\ pc' = "idle"
    /\ dirs' = TRUE
    /\ UNCHANGED written

\* the return of an error by `?` before create_dir_all has made anything
EarlyReturn(kind, failed) ==
    /\ result' = <<kind>>
    /\ fault' = failed
    /\ pc' = "idle"
    /\ UNCHANGED <<dirs, written>>

\* render: compile the template, take the parent of the output path, make
\* the directories
RenderBegin ==
    /\ pc = "idle"
    /\ renders < MaxRenders
    /\ renders' = renders + 1
    /\ \E compiles \in BOOLEAN, created \in BOOLEAN :
          IF ~compiles
          THEN EarlyReturn("InvalidTemplateSource", "Template::new")
          ELSE IF Parent(docco.output) = {}
          THEN EarlyReturn("RenderFailed", "none")
          ELSE IF ~created
          THEN EarlyReturn("Io", "create_dir_all")
          ELSE /\ dirs' = TRUE
               /\ pc' = "render_to_file"
               /\ result' = <<"Pending">>
               /\ fault' = "none"
               /\ UNCHANGED written
    /\ UNCHANGED <<docco, file, parse_locals, spans, log, call, parses>>

\* an output file that is written only when there is a section to render
RenderedFileIfAny ==
    IF docco.sections = <<>> THEN written ELSE <<docco.sections>>

\* the output file after render_to_file: the Document rendered, of which
\* the model keeps the sections
RenderedFile == <<docco.sections>>

\* render: write the rendered template to the output file, return
RenderToFile ==
    /\ pc = "render_to_file"
    /\ pc' = "idle"
    /\ \E rendered \in BOOLEAN :
          IF rendered
          THEN /\ written' = RenderedFile
               /\ result' = <<"Ok">>
               /\ UNCHANGED fault
          ELSE /\ result' = <<"Io">>
               /\ fault' = "render_to_file"
               /\ UNCHANGED written
    /\ UNCHANGED <<docco, file, parse_locals, spans, log, call, parses,
                   dirs, renders>>

Render == RenderBegin \/ RenderToFile

(***************************************************************************)
(* The call of Docco::new.                                                 *)
(***************************************************************************)
\* source paths given to Docco::new
NewSources ==
    SourcePaths \cup
    { <<"s">>, <<"t", "/", "s">>, <<".", "r", "s">>, <<"s", ".", "x">>,
      <<"s", ".">>, <<"t", ".", "d", "/", "s">> }

\* output arguments given to Docco::new
NewOutputs == { {}, {<<"t", "/">>}, {<<"d">>}, {<<"o", ".", "h">>}, {<<>>} }

New ==
    /\ pc = "new"
    /\ \E source \in NewSources, is_file \in BOOLEAN,
          output \in NewOutputs, is_dir \in BOOLEAN :
          /\ is_dir => output \notin {{}, {<<>>}}
          /\ call' = [source |-> source, is_file |-> is_file,
                      output |-> output, is_dir |-> is_dir]
          /\ LET r == DoccoNew(source, is_file, output, is_dir)
             IN  /\ docco' = IF r.ok THEN r.value ELSE NoDocco
                 /\ pc' = IF r.ok THEN "idle" ELSE "failed"
                 /\ result' = IF r.kind = "UnsupportedExt"
                              THEN <<r.kind, r.value.extension>>
                              ELSE <<r.kind>>
    /\ UNCHANGED <<file, parse_locals, spans, log, parses, render_state>>

NoCall == [source |-> <<>>, is_file |-> FALSE, output |-> {}, is_dir |-> FALSE]

(***************************************************************************)
(* Specifications.                                                         *)
(***************************************************************************)
\* a constructed Document over some source file, before any parse or render
Init ==
    /\ \E source \in SourcePaths :
          /\ call = [source |-> source, is_file |-> TRUE,
                     output |-> {}, is_dir |-> FALSE]
          /\ docco = DoccoNew(source, TRUE, {}, FALSE).value
          /\ file \in SourceFiles(DoccoNew(source, TRUE, {}, FALSE).value.doc_symbol)
    /\ pc = "idle"
    /\ lines = 1
    /\ idx = 0
    /\ doc = <<>>
    /\ code = <<>>
    /\ result = <<"Ok">>
    /\ written = <<>>
    /\ dirs = FALSE
    /\ fault = "none"
    /\ scan = NoScan
    /\ spans = <<>>
    /\ log = <<>>
    /\ parses = 0
    /\ renders = 0

Parse ==
    \/ ParseOpen
    \/ OuterSkip
    \/ OuterSection
    \/ OuterReturn
    \/ DocConsume
    \/ DocReturn
    \/ CodeConsume
    \/ CodeReturn
    \/ PushSection

Next == Parse \/ Render

Spec == Init /\ [][Next]_vars

\* the state before Docco::new is called
InitNew ==
    /\ docco = NoDocco
    /\ call = NoCall
    /\ file = <<>>
    /\ pc = "new"
    /\ lines = 1
    /\ idx = 0
    /\ doc = <<>>
    /\ code = <<>>
    /\ result = <<"Pending">>
    /\ written = <<>>
    /\ dirs = FALSE
    /\ fault = "none"
    /\ scan = NoScan
    /\ spans = <<>>
    /\ log = <<>>
    /\ parses = 0
    /\ renders = 0

NextNew == New

SpecNew == InitNew /\ [][NextNew]_vars

\* the source files of the Documents that are rendered
RenderFiles(sym) == FilesOfLen(0, sym) \cup FilesOfLen(1, sym)

\* a Document constructed with any of the output arguments
InitRender ==
    /\ \E source \in SourcePaths, output \in NewOutputs, is_dir \in BOOLEAN :
          /\ is_dir => output \notin {{}, {<<>>}}
          /\ call = [source |-> source, is_file |-> TRUE,
                     output |-> output, is_dir |-> is_dir]
          /\ docco = DoccoNew(source, TRUE, output, is_dir).value
          /\ file \in RenderFiles(DoccoNew(source, TRUE, output, is_dir).value.doc_symbol)
    /\ pc = "idle"
    /\ lines = 1
    /\ idx = 0
    /\ doc = <<>>
    /\ code = <<>>
    /\ result = <<"Ok">>
    /\ written = <<>>
    /\ dirs = FALSE
    /\ fault = "none"
    /\ scan = NoScan
    /\ spans = <<>>
    /\ log = <<>>
    /\ parses = 0
    /\ renders = 0

NextRender == Render \/ Parse

SpecRender == InitRender /\ [][NextRender]_vars


(***************************************************************************)
(* Vocabulary of the properties.                                           *)
(***************************************************************************)
\* the kinds of line, in the words of the specification
EmptyLine(l) == l = <<>>
CommentLine(l) == l # Unreadable /\ StartsWith(TrimStart(l), docco.doc_symbol)
CodeLine(l) == l # Unreadable /\ l # <<>> /\ ~StartsWith(TrimStart(l), docco.doc_symbol)

AllReadable == \A k \in 1..Len(file) : file[k] # Unreadable

\* the source lines of the sections made so far, section by section
SpanLines ==
    [i \in 1..Len(spans) |->
        [doc_lines |-> spans[i].doc_lines, code_lines |-> spans[i].code_lines]]

\* the line numbers from..to, in order
RECURSIVE Range(_, _)
Range(from, to) == IF from > to THEN <<>> ELSE <<from>> \o Range(from + 1, to)

\* the line after the maximal run of comment lines that starts at line k
RECURSIVE CommentRunEnd(_)
CommentRunEnd(k) ==
    IF k <= Len(file) /\ CommentLine(file[k]) THEN CommentRunEnd(k + 1) ELSE k

\* the line after the maximal run of code lines that starts at line k
RECURSIVE CodeRunEnd(_)
CodeRunEnd(k) ==
    IF k <= Len(file) /\ CodeLine(file[k]) THEN CodeRunEnd(k + 1) ELSE k

\* the reference segmentation of the lines from k on: empty lines are
\* skipped, a section is a maximal run of comment lines followed by a
\* maximal run of code lines
RECURSIVE RefSegments(_)
RefSegments(k) ==
    IF k > Len(file) THEN <<>>
    ELSE IF EmptyLine(file[k]) THEN RefSegments(k + 1)
    ELSE LET d == CommentRunEnd(k)
             c == CodeRunEnd(d)
         IN  <<[doc_lines |-> Range(k, d - 1), code_lines |-> Range(d, c - 1)]>>
             \o RefSegments(c)

IsPrefix(s, t) == Len(s) <= Len(t) /\ SubSeq(t, 1, Len(s)) = s

\* the first call of parse() on the Document is running or has returned
FirstParse == parses = 1
FirstParseDone == parses = 1 /\ Len(log) = 1 /\ log[1].result = "Ok"

(***************************************************************************)
(* Properties.                                                             *)
(***************************************************************************)
\* C1: parse() terminates on every finite source file: each pass of its
\* outer loop consumes at least one line (the empty line it skips, or the
\* lines of the section it pushes), so it cannot keep iterating without
\* consuming a line.
C1_EveryPassConsumes ==
    [][(pc \in {"outer", "push"} /\ pc' = "outer")
          => lines' > (IF pc = "push" THEN scan.from ELSE lines)]_vars

\* C2: a call of parse() during which reading a line failed returns the Io
\* error kind, never success.
C2_ReadFailureIsIo ==
    \A i \in 1..Len(log) : log[i].read_failed => log[i].result = "Io"

\* C3: in every reachable state, sections[i].num == i for every position i
\* of the section list (positions counted from 0).
C3_NumIsPosition ==
    \A i \in 1..Len(docco.sections) : docco.sections[i].num = i - 1

\* C4: parse() is idempotent: after two successive successful calls on the
\* same Document and file, the section list after the second call is the
\* one left by the first call.
C4_ParseIdempotent ==
    (Len(log) = 2 /\ log[1].result = "Ok" /\ log[2].result = "Ok")
       => log[2].sections = log[1].sections

\* C5: the sections of one parse() on a fresh Document are those of the
\* reference segmentation, in number and in the lines each one holds:
\* while parse() runs they are the first sections of the reference, and
\* when it has returned they are all of them.
C5_MatchesReference ==
    (AllReadable /\ FirstParse)
       => /\ IsPrefix(SpanLines, RefSegments(1))
          /\ FirstParseDone => SpanLines = RefSegments(1)

\* the line numbers held by the sections, in section order
RECURSIVE Covered(_)
Covered(i) ==
    IF i > Len(spans) THEN <<>>
    ELSE spans[i].doc_lines \o spans[i].code_lines \o Covered(i + 1)

\* C6: after parse() completes on a fresh Document the sections cover the
\* source exactly: the lines they hold are in source order without repeats,
\* every line that is not empty is held by a section, and no empty line is.
C6_SectionsCoverSource ==
    FirstParseDone
       => LET cov == Covered(1)
          IN  /\ \A i, j \in 1..Len(cov) : i < j => cov[i] < cov[j]
              /\ \A k \in 1..Len(file) :
                    /\ (file[k] # <<>> /\ file[k] # Unreadable)
                          => \E i \in 1..Len(cov) : cov[i] = k
                    /\ file[k] = <<>> => \A i \in 1..Len(cov) : cov[i] # k

\* lines a and b are code lines with one or more empty lines, and nothing
\* else, between them
BlankSeparated(a, b) ==
    /\ a + 1 < b
    /\ CodeLine(file[a])
    /\ CodeLine(file[b])
    /\ \A k \in (a + 1)..(b - 1) : EmptyLine(file[k])

\* section i holds line k as a code line
HoldsCode(i, k) == \E n \in 1..Len(spans[i].code_lines) : spans[i].code_lines[n] = k

\* section i holds line k
Holds(i, k) ==
    HoldsCode(i, k) \/ \E n \in 1..Len(spans[i].doc_lines) : spans[i].doc_lines[n] = k

\* C7: blank-line boundary: two runs of code separated by empty lines only
\* are in two distinct consecutive sections, the second of them has an
\* empty documentation part, and the empty lines are in neither.
C7_BlankLineBoundary ==
    \A a, b \in 1..Len(file) : \A j \in 1..Len(spans) :
        (BlankSeparated(a, b) /\ HoldsCode(j, b))
           => /\ j > 1
              /\ spans[j - 1].parse = spans[j].parse
              /\ HoldsCode(j - 1, a)
              /\ ~HoldsCode(j, a)
              /\ spans[j].doc = <<>>
              /\ docco.sections[j].docs_html = <<>>
              /\ \A k \in (a + 1)..(b - 1) : ~Holds(j - 1, k) /\ ~Holds(j, k)

\* a section was made of code that follows, after an empty line, the code
\* of the section before it
C7_Witness ==
    \E a, b \in 1..Len(file) : \E j \in 2..Len(spans) :
        BlankSeparated(a, b) /\ HoldsCode(j, b) /\ HoldsCode(j - 1, a)

\* s without one leading occurrence of p
StripOnce(s, p) == IF StartsWith(s, p) THEN Drop(s, Len(p)) ELSE s

\* the text the documentation scan is to append for line l
C8_DocAppended(l) ==
    IF StartsWith(TrimStart(l), <<"/", "/", "/">>)
    THEN TrimStart(l) \o <<"\n">>
    ELSE StripOnce(TrimStart(l), docco.doc_symbol) \o <<"\n">>

\* C8: the documentation scan appends, for a line whose trimmed form does
\* not begin with "///", the line without its leading whitespace and
\* without exactly one leading occurrence of the delimiter, then a newline;
\* for a line that begins with "///", the line without its leading
\* whitespace, marker included, then a newline.
C8_StripsOneDelimiter ==
    [][(pc = "parse_doc" /\ lines' = lines + 1)
          => doc' = doc \o C8_DocAppended(next_line)]_vars

\* the text of l with "<" written as &lt and ">" as &gt
RECURSIVE C9_Escaped(_)
C9_Escaped(l) ==
    IF l = <<>> THEN <<>>
    ELSE (CASE Head(l) = "<" -> <<"&", "l", "t">>
            [] Head(l) = ">" -> <<"&", "g", "t">>
            [] OTHER -> <<Head(l)>>) \o C9_Escaped(Tail(l))

NoAngle(t) == \A n \in 1..Len(t) : t[n] \notin {"<", ">"}

\* C9: the code scan adds, for every line it consumes, the line with its
\* leading whitespace kept, every "<" replaced by &lt and every ">" by &gt
\* (no semicolon), and exactly one newline; no code_html holds a literal
\* "<" or ">".
C9_CodeIsEscaped ==
    /\ [][(pc = "parse_code" /\ lines' = lines + 1)
             => code' = code \o C9_Escaped(next_line) \o <<"\n">>]_vars
    /\ [](\A i \in 1..Len(docco.sections) : NoAngle(docco.sections[i].code_html))

\* a section holds the escaped text of the line " <a>"
C9_Witness ==
    \E i \in 1..Len(docco.sections) :
        /\ docco.sections[i].code_html =
              <<" ", "&", "l", "t", "a", "&", "g", "t", "\n">>
        /\ \E k \in 1..Len(file) :
              file[k] = <<" ", "<", "a", ">">> /\ HoldsCode(i, k)

\* C10: Docco::new on an existing regular file whose path has no file-name
\* extension fails with the NoExtension error kind.
C10_NoExtension ==
    (pc # "new" /\ call.is_file /\ Extension(call.source) = {})
       => result = <<"NoExtension">>


\* C11: Docco::new on an existing regular file whose extension is not a key
\* of the language table fails with UnsupportedExt carrying exactly that
\* extension, and produces no Document.
C11_UnsupportedExt ==
    \A e \in Extension(call.source) :
        (pc # "new" /\ call.is_file /\ e \notin DOMAIN LANGUAGES)
           => /\ result = <<"UnsupportedExt", e>>
              /\ pc = "failed"
              /\ docco = NoDocco

\* Docco::new has refused the existing file "s.x"
C11_Witness ==
    /\ pc = "failed"
    /\ call.is_file
    /\ call.source = <<"s", ".", "x">>
    /\ result = <<"UnsupportedExt", <<"x">>>>


\* C12: render() called on a freshly constructed Document, before any
\* parse(), succeeds exactly when the template compiles, the output path has
\* a parent and the file system calls succeed, and what it renders is a
\* document with zero sections.
C12_RenderBeforeParse ==
    (parses = 0 /\ renders >= 1 /\ pc = "idle")
       => /\ result = <<"Ok">> <=> (fault = "none" /\ Parent(docco.output) # {})
          /\ result = <<"Ok">> => written = << <<>> >>

\* a render() before any parse() has succeeded
C12_Witness ==
    /\ parses = 0
    /\ renders = 1
    /\ pc = "idle"
    /\ result = <<"Ok">>
    /\ written = << <<>> >>

\* C13: render() fails with InvalidTemplateSource when the template does not
\* compile and, when it compiles, with RenderFailed when the output path has
\* no parent, in both cases before any directory is made or any file
\* written; the output file is written only after the parent directories
\* have been made.
C13_RenderFailures ==
    [][/\ (pc = "idle" /\ renders' = renders + 1 /\ fault' = "Template::new")
             => /\ result' = <<"InvalidTemplateSource">>
                /\ pc' = "idle"
                /\ UNCHANGED <<dirs, written>>
       /\ (pc = "idle" /\ renders' = renders + 1 /\ fault' # "Template::new"
              /\ Parent(docco.output) = {})
             => /\ result' = <<"RenderFailed">>
                /\ pc' = "idle"
                /\ UNCHANGED <<dirs, written>>
       /\ written' # written => (pc = "render_to_file" /\ dirs)]_vars

\* render() has refused an output path without parent, nothing made
C13_Witness ==
    /\ renders >= 1
    /\ Parent(docco.output) = {}
    /\ result = <<"RenderFailed">>
    /\ ~dirs
    /\ written = <<>>


\* the name of the source file without its extension, then ".html"
C14_HtmlName(name) ==
    SubSeq(name, 1, Len(name) - Len(docco.extension) - 1)
       \o <<".", "h", "t", "m", "l">>

\* C14: when the output argument is an existing directory the output path of
\* the Document is <dir>/<source-base-name>.html, and when there is no
\* output argument it is <source-base-name>.html.
C14_OutputPath ==
    pc = "idle"
       => \A name \in FileName(call.source) :
             /\ call.output = {} => docco.output = C14_HtmlName(name)
             /\ \A dir \in call.output :
                   call.is_dir
                      => docco.output = dir \o <<"/">> \o C14_HtmlName(name)

\* a Document was constructed from "t/s.rs" with the directory "d" as output
C14_Witness ==
    /\ pc = "idle"
    /\ call.source = <<"t", "/", "s", ".", "r", "s">>
    /\ call.output = {<<"d">>}
    /\ call.is_dir
    /\ docco.output = <<"d", "/", "s", ".", "h", "t", "m", "l">>


\* C15: the code scan consumes the next line if and only if that line is
\* not empty and, trimmed of leading whitespace, does not start with the
\* comment delimiter; when it stops, the line that stopped it is still the
\* next unconsumed line.
C15_CodeScanRule ==
    [][pc = "parse_code"
          => /\ (lines' = lines + 1)
                   <=> (PeekOk /\ next_line # <<>>
                          /\ ~StartsWith(TrimStart(next_line), docco.doc_symbol))
             /\ pc' = "push" => lines' = lines]_vars

\* C16: no empty section is emitted: every section consumed at least one
\* source line, so its documentation buffer or its code buffer is not empty.
C16_NoEmptySection ==
    \A i \in 1..Len(spans) :
        /\ spans[i].doc_lines # <<>> \/ spans[i].code_lines # <<>>
        /\ spans[i].doc # <<>> \/ spans[i].code # <<>>

\* the Document without its section list
C17_Frame(d) == [d EXCEPT !.sections = <<>>]

\* C17: sections are append-only: a step of parse() leaves the section list
\* as it is or appends one section at its end; render() changes no field of
\* the Document; parse() changes no field other than the section list.
C17_AppendOnly ==
    [][/\ \/ docco'.sections = docco.sections
          \/ /\ pc \notin {"idle", "render_to_file"}
             /\ Len(docco'.sections) = Len(docco.sections) + 1
             /\ SubSeq(docco'.sections, 1, Len(docco.sections)) = docco.sections
       /\ C17_Frame(docco') = C17_Frame(docco)
       /\ (renders' # renders \/ pc = "render_to_file") => docco' = docco]_vars

\* two calls of parse() have appended sections and render() has run
C17_Witness ==
    /\ Len(docco.sections) >= 2
    /\ Len(log) = 2
    /\ log[1].sections # <<>>
    /\ log[2].sections # log[1].sections
    /\ renders >= 1
    /\ written # <<>>

\* C18: a section with an empty documentation part starts at the beginning
\* of the file or right after an empty line: a section that starts right
\* after a line that is not empty has a non-empty documentation buffer.
C18_EmptyDocAfterBlank ==
    \A j \in 1..Len(spans) :
        (spans[j].from > 1 /\ file[spans[j].from - 1] # <<>>)
           => spans[j].doc # <<>>

=============================================================================
